---- MODULE Spec2Model ----
(***************************************************************************)
(* Order Store of the orders service (src/service_orders): the order        *)
(* records, the status state machine of update_order_status and            *)
(* cancel_order, ownership checks and the error code each request          *)
(* delivers to its caller.                                                  *)
(*                                                                         *)
(* Spec     : requests are handled one at a time (each handler is one      *)
(*            atomic step: query, checks, commit, response).               *)
(* SpecConc : independent workers share only the store; a status request   *)
(*            is a query step (SELECT and the checks on the loaded row)    *)
(*            followed later by a finish step (UPDATE + COMMIT, response). *)
(* SpecTotal: one order created from any request body of the bounded       *)
(*            item lists, then any status requests on it.                  *)
(* SpecAll  : Spec with listings of the caller's orders.                   *)
(* SpecList : one client pages through one query over a store that is not  *)
(*            written meanwhile.                                           *)
(* SpecUsers: the listing of the identity store (src/service_users).       *)
(* SpecCred : credentials are issued, time passes, and the three services  *)
(*            verify issued and forged credentials.                        *)
(* SpecFaults: Spec with a database whose commit or refresh may fail.      *)
(* SpecIdentity: register, login and profile updates of the identity       *)
(*            store, one request at a time.                                *)
(* SpecIdentityConc: registers and email changes by independent workers,   *)
(*            each a check step and a commit step.                         *)
(* SpecRoles: registers with any roles field, listings of users, and       *)
(*            changes of stored roles.                                     *)
(* SpecProfiles: registers with any roles field and profile updates.       *)
(* SpecGateway, SpecGatewayLive: the routes of the gateway                 *)
(*            (src/api_gateway), without and with fairness of the step     *)
(*            that ends the downstream call.                               *)
(* SpecAccess: the routes of the order store called with credentials, one  *)
(*            order followed from its creation on.                         *)
(* SpecSubjects: a client logs in and uses the protected operations of the *)
(*            identity store with that credential while time passes.       *)
(***************************************************************************)
EXTENDS Integers, Sequences, FiniteSets, TLC

\* ---------------------------------------------------------------- bounds
MaxOrders  == 2    \* rows the orders table may hold
MaxUsers   == 2    \* distinct credential subjects
MaxItems   == 2    \* items per create request
MaxAmount  == 2    \* item.amount ranges over 1..MaxAmount
MaxPrice   == 2    \* item.price (in cents) ranges over 1..MaxPrice
MaxWorkers == 2    \* concurrent workers of SpecConc
MaxListed  == 2    \* rows of the stores SpecList lists
MaxPage    == 2    \* page number of the first listing of a client
MaxPageSize == 2   \* page_size ranges over 1..MaxPageSize
MaxTtl     == 2    \* expires_delta ranges over 0..MaxTtl minutes
MaxClock   == 2    \* minutes the clock is followed after an instant of interest

Users      == 1..MaxUsers
RequestIds == 1..(MaxOrders + 1)      \* MaxOrders + 1 is never a stored id
Workers    == 1..MaxWorkers

\* ------------------------------------------------------------ data model
\* models.py: class OrderStatus
OrderStatus == {"CREATED", "IN_PROGRESS", "COMPLETED", "CANCELLED"}

\* schemas.py: class OrderItem (amount > 0, price > 0)
OrderItem == [amount : 1..MaxAmount, price : 1..MaxPrice]

\* request bodies of create: item lists of length 0..MaxItems
ItemLists == UNION {[1..n -> OrderItem] : n \in 0..MaxItems}

\* a JSON body sent to POST /orders/: the items, and fields a client may add
\* that OrderCreate does not declare ("NONE", 0: the field is absent)
Bodies == [items : ItemLists, status : OrderStatus \cup {"NONE"},
           user_id : Users \cup {0}]

\* the two bodies the lifecycle specifications send: no item, and one item
\* the body of a request that carries none
NoBody == [items |-> <<>>, status |-> "NONE", user_id |-> 0]

SampleBodies == {[items |-> <<>>, status |-> "NONE", user_id |-> 0],
                 [items |-> <<[amount |-> 1, price |-> 1]>>,
                  status |-> "NONE", user_id |-> 0]}

\* orders   : the orders table, a sequence of rows [user_id, items, status,
\*            total_amount]; a row's id is its index
\* sessions : per worker, the request in progress and the row its session loaded
\* last     : the most recently answered request and the envelope it received
VARIABLES orders, sessions, last, users, now

vars == <<orders, sessions, last, users, now>>

\* the table users of the identity store and the clock (in minutes): the
\* handlers of the order store read and write neither
identity_and_clock == <<users, now>>

\* ------------------------------------------------------------- helpers
\* the row that db.query(Order).filter(Order.id == order_id).first() returns
NoRow == [found |-> FALSE, user_id |-> 0, status |-> "NONE"]

first(order_id) ==
    IF order_id \in DOMAIN orders
    THEN [found |-> TRUE, user_id |-> orders[order_id].user_id,
          status |-> orders[order_id].status]
    ELSE NoRow

\* raise ApiException(code, ...) inside the try block
Raise(code) == [raised |-> TRUE, success |-> FALSE, code |-> code, write |-> "NONE"]

\* order.status = s; db.commit(); return ApiResponse(success=True, ...)
Commit(s) == [raised |-> FALSE, success |-> TRUE, code |-> "OK", write |-> s]

\* return ApiResponse(success=..., error=...) without a write
Return(ok, code) == [raised |-> FALSE, success |-> ok, code |-> code, write |-> "NONE"]

\* except Exception as e: db.rollback(); raise ApiException(generic, ...)
\* ApiException is a subclass of Exception, so every raise of the try block
\* reaches this clause.
except_Exception(r, generic) == IF r.raised THEN Raise(generic) ELSE r

\* variant of OrderCreate whose items field has no min_length
OrderCreate_any_length(body) == [valid |-> TRUE, items |-> body.items]

\* schemas.py OrderCreate: pydantic keeps the declared field items and drops
\* every other field of the body; min_length=1 refuses an empty list
OrderCreate(body) == [valid |-> Len(body.items) >= 1, items |-> body.items]

\* variant of total_amount that assigns instead of accumulating
total_amount_assigned(items) ==
    IF Len(items) = 0 THEN 0
    ELSE items[Len(items)].price * items[Len(items)].amount

\* create_order, lines 34-40: total_amount = Decimal(0); for item in items:
\* total_amount += item.price * item.amount   (prices in cents)
RECURSIVE total_amount(_)
total_amount(items) ==
    IF Len(items) = 0 THEN 0
    ELSE total_amount(SubSeq(items, 1, Len(items) - 1))
         + items[Len(items)].price * items[Len(items)].amount

\* create_order, lines 43-48: the row handed to db.add
new_order(current_user_id, order_data) ==
    [user_id |-> current_user_id,
     items |-> order_data.items,
     status |-> "CREATED",
     total_amount |-> total_amount(order_data.items)]

Idle == [pc |-> "idle", op |-> "none", caller |-> 0, order_id |-> 0,
         target |-> "NONE", order |-> NoRow]

\* the query parameters and the page of a request that is no listing
NoQuery == [page |-> 0, page_size |-> 0, status_filter |-> "NONE",
            sort_by |-> "NONE", sort_order |-> "NONE"]

NoListing == [query |-> NoQuery, items |-> <<>>, total |-> 0, pages |-> 0,
              run |-> [from |-> 0, items |-> <<>>]]

\* a request that carries no credential to be verified
NoToken == [key |-> "NONE", has_sub |-> FALSE, sub |-> 0, email |-> <<>>,
            has_exp |-> FALSE, exp |-> 0]

\* expires_delta = None
NoDelta == [given |-> FALSE, minutes |-> 0]

\* the fields of a request to the identity store that carries none; a field
\* that is absent (None) has given = FALSE
Absent == [given |-> FALSE, value |-> <<>>]

NoRoles == [given |-> FALSE, values |-> {}]

NoAccount == [email |-> Absent, password |-> <<>>, name |-> Absent,
              roles |-> NoRoles, id |-> 0]

\* the request answered before a request
NoPrev == [op |-> "none", caller |-> 0, success |-> FALSE]

NoRequest == [op |-> "none", caller |-> 0, order_id |-> 0, target |-> "NONE",
              body |-> NoBody, before |-> NoRow, listing |-> NoListing,
              service |-> "NONE", token |-> NoToken, delta |-> NoDelta, at |-> 0,
              account |-> NoAccount, prev |-> NoPrev,
              gateway |-> [route |-> "NONE", protected |-> FALSE, sent |-> NoToken,
                           calls |-> 0,
                           downstream |-> [kind |-> "NONE", status_code |-> 0,
                                           json |-> [success |-> FALSE, code |-> "NONE"]],
                           status_code |-> 0,
                           json |-> [success |-> FALSE, code |-> "NONE"]],
              success |-> FALSE, code |-> "NONE"]

Init ==
    /\ orders = <<>>
    /\ sessions = [w \in Workers |-> Idle]
    /\ last = NoRequest
    /\ users = <<>>
    /\ now = 0

\* ------------------------------------------------- handler bodies (try blocks)
\* variant of update_order_status_try that lacks the check for a cancelled order
update_order_status_try_no_cancelled_check(order, current_user_id, new_status) ==
    IF ~order.found THEN Raise("ORDER_NOT_FOUND")
    ELSE IF order.user_id # current_user_id THEN Raise("ACCESS_DENIED")
    ELSE IF order.status = "COMPLETED" /\ new_status # "COMPLETED"
         THEN Raise("INVALID_STATUS_CHANGE")
    ELSE Commit(new_status)

\* variant of update_order_status_try that rejects every request on a completed order
update_order_status_try_completed_immutable(order, current_user_id, new_status) ==
    IF ~order.found THEN Raise("ORDER_NOT_FOUND")
    ELSE IF order.user_id # current_user_id THEN Raise("ACCESS_DENIED")
    ELSE IF order.status = "CANCELLED" THEN Raise("INVALID_STATUS_CHANGE")
    ELSE IF order.status = "COMPLETED" THEN Raise("INVALID_STATUS_CHANGE")
    ELSE Commit(new_status)

\* a variant of the try block below without the ownership check
update_order_status_try_no_owner_check(order, current_user_id, new_status) ==
    IF ~order.found THEN Raise("ORDER_NOT_FOUND")
    ELSE IF order.status = "CANCELLED" THEN Raise("INVALID_STATUS_CHANGE")
    ELSE IF order.status = "COMPLETED" /\ new_status # "COMPLETED"
         THEN Raise("INVALID_STATUS_CHANGE")
    ELSE Commit(new_status)

\* update_order_status, lines 172-209: the try block, on the row the session loaded
update_order_status_try(order, current_user_id, new_status) ==
    IF ~order.found THEN Raise("ORDER_NOT_FOUND")
    ELSE IF order.user_id # current_user_id THEN Raise("ACCESS_DENIED")
    ELSE IF order.status = "CANCELLED" THEN Raise("INVALID_STATUS_CHANGE")
    ELSE IF order.status = "COMPLETED" /\ new_status # "COMPLETED"
         THEN Raise("INVALID_STATUS_CHANGE")
    ELSE Commit(new_status)

\* variant of cancel_order_try that only cancels an order not yet in progress
cancel_order_try_created_only(order, current_user_id) ==
    IF ~order.found THEN Raise("ORDER_NOT_FOUND")
    ELSE IF order.user_id # current_user_id THEN Raise("ACCESS_DENIED")
    ELSE IF order.status = "CANCELLED" THEN Raise("ORDER_ALREADY_CANCELLED")
    ELSE IF order.status # "CREATED" THEN Raise("CANNOT_CANCEL_COMPLETED")
    ELSE Commit("CANCELLED")

\* cancel_order, lines 228-265: the try block
cancel_order_try(order, current_user_id) ==
    IF ~order.found THEN Raise("ORDER_NOT_FOUND")
    ELSE IF order.user_id # current_user_id THEN Raise("ACCESS_DENIED")
    ELSE IF order.status = "CANCELLED" THEN Raise("ORDER_ALREADY_CANCELLED")
    ELSE IF order.status = "COMPLETED" THEN Raise("CANNOT_CANCEL_COMPLETED")
    ELSE Commit("CANCELLED")

\* get_order, lines 74-97: a missing row is answered by a returned envelope,
\* a foreign row by a raised ApiException
get_order_try(order, current_user_id) ==
    IF ~order.found THEN Return(FALSE, "ORDER_NOT_FOUND")
    ELSE IF order.user_id # current_user_id THEN Raise("ACCESS_DENIED")
    ELSE Return(TRUE, "OK")

\* the whole handler: try block, then the except clause of that handler
Handle(op, order, current_user_id, new_status) ==
    CASE op = "updateStatus" ->
            except_Exception(update_order_status_try(order, current_user_id, new_status),
                             "UPDATE_ORDER_FAILED")
      [] op = "cancel" ->
            except_Exception(cancel_order_try(order, current_user_id),
                             "CANCEL_ORDER_FAILED")
      [] op = "get" ->
            except_Exception(get_order_try(order, current_user_id),
                             "FETCH_ORDER_FAILED")

\* variant of flush whose UPDATE has no WHERE clause
flush_every_row(order_id, order, r) ==
    IF r.write # "NONE" /\ r.write # order.status
    THEN [o \in DOMAIN orders |-> [orders[o] EXCEPT !.status = r.write]]
    ELSE orders

\* variant of flush in which a cancellation deletes the row
flush_delete_cancelled(order_id, order, r) ==
    IF r.write = "CANCELLED"
    THEN SubSeq(orders, 1, order_id - 1) \o SubSeq(orders, order_id + 1, Len(orders))
    ELSE IF r.write # "NONE" /\ r.write # order.status
    THEN [orders EXCEPT ![order_id].status = r.write]
    ELSE orders

\* db.commit() of a session whose loaded row had status order.status: the unit
\* of work emits UPDATE orders SET status = ... WHERE id = order_id only when
\* the attribute differs from the loaded value; a raise ends in db.rollback()
flush(order_id, order, r) ==
    IF r.write # "NONE" /\ r.write # order.status
    THEN [orders EXCEPT ![order_id].status = r.write]
    ELSE orders

\* main.py unicorn_exception_handler / the returned ApiResponse: the envelope
\* carries the code of the exception that left the handler
Answer(op, caller, order_id, target, order, r) ==
    [op |-> op, caller |-> caller, order_id |-> order_id, target |-> target,
     body |-> NoBody, before |-> order, listing |-> NoListing,
     success |-> r.success, code |-> r.code]

\* ------------------------------------------------------------- actions
\* POST /orders/ : a body without items is refused by the request schema
\* (VALIDATION_ERROR, main.py validation_exception_handler); otherwise the
\* handler inserts the row with a fresh id.  Amounts are whole cents, which
\* the column Numeric(10, 2) stores exactly; every total of the bounded
\* bodies is far below its limit of 10^10 cents.
create_order(current_user_id, body) ==
    LET order_data == OrderCreate(body)
        row        == new_order(current_user_id, order_data)
    IN  /\ Len(orders) < MaxOrders
        /\ IF ~order_data.valid
           THEN /\ orders' = orders
                /\ last' = [NoRequest EXCEPT !.op = "create",
                                             !.caller = current_user_id,
                                             !.body = body,
                                             !.code = "VALIDATION_ERROR"]
           ELSE /\ orders' = Append(orders, row)
                /\ last' = [NoRequest EXCEPT !.op = "create",
                                             !.caller = current_user_id,
                                             !.body = body,
                                             !.order_id = Len(orders) + 1,
                                             !.success = TRUE, !.code = "OK"]
        /\ UNCHANGED sessions
        /\ UNCHANGED identity_and_clock

\* one request handled from query to response without interleaving
Request(op, current_user_id, order_id, new_status) ==
    LET order == first(order_id)
        r     == Handle(op, order, current_user_id, new_status)
    IN  /\ orders' = flush(order_id, order, r)
        /\ last' = Answer(op, current_user_id, order_id, new_status, order, r)
        /\ UNCHANGED sessions
        /\ UNCHANGED identity_and_clock

\* GET /orders/{order_id}
get_order(current_user_id, order_id) ==
    Request("get", current_user_id, order_id, "NONE")

\* PUT /orders/{order_id}/status
update_order_status(current_user_id, order_id, new_status) ==
    Request("updateStatus", current_user_id, order_id, new_status)

\* DELETE /orders/{order_id}
cancel_order(current_user_id, order_id) ==
    Request("cancel", current_user_id, order_id, "NONE")

Next ==
    \/ \E u \in Users, body \in SampleBodies : create_order(u, body)
    \/ \E u \in Users, id \in RequestIds : get_order(u, id)
    \/ \E u \in Users, id \in RequestIds, s \in OrderStatus : update_order_status(u, id, s)
    \/ \E u \in Users, id \in RequestIds : cancel_order(u, id)

Spec == Init /\ [][Next]_vars

\* ------------------------------------------- order store: database failures
\* how the round trips that follow the checks of a status request end: both
\* succeed; db.commit() raises and the transaction is rolled back; db.commit()
\* succeeds and db.refresh(order) raises
Faults == {"none", "commit", "refresh"}

\* update_order_status and cancel_order with a database that may fail: the
\* except clause answers the generic code of the handler for either failure,
\* after the db.rollback() of whatever is not yet committed
RequestUnderFaults(op, current_user_id, order_id, new_status, fault) ==
    LET order   == first(order_id)
        r       == Handle(op, order, current_user_id, new_status)
        generic == IF op = "updateStatus" THEN "UPDATE_ORDER_FAILED"
                   ELSE "CANCEL_ORDER_FAILED"
    IN  /\ r.raised => fault = "none"
        /\ orders' = IF fault = "commit" THEN orders ELSE flush(order_id, order, r)
        /\ last' = Answer(op, current_user_id, order_id, new_status, order,
                          IF fault = "none" THEN r ELSE Raise(generic))
        /\ UNCHANGED sessions
        /\ UNCHANGED identity_and_clock

NextFaults ==
    \/ \E u \in Users, body \in SampleBodies : create_order(u, body)
    \/ \E u \in Users, id \in RequestIds : get_order(u, id)
    \/ \E u \in Users, id \in RequestIds, s \in OrderStatus, fault \in Faults :
          RequestUnderFaults("updateStatus", u, id, s, fault)
    \/ \E u \in Users, id \in RequestIds, fault \in Faults :
          RequestUnderFaults("cancel", u, id, "NONE", fault)

SpecFaults == Init /\ [][NextFaults]_vars

\* ------------------------------------------------ concurrent workers
\* A worker's session runs db.query(Order).filter(Order.id == order_id).first()
\* and the checks of the try block on the row it loaded.  A raise ends the
\* request here (rollback, answer): it has no further store round trip.
\* Otherwise the assignment order.status = ... is pending in the session
\* until the worker's db.commit().
Query(w, op, current_user_id, order_id, new_status) ==
    LET order == first(order_id)
        r     == Handle(op, order, current_user_id, new_status)
    IN  /\ sessions[w].pc = "idle"
        /\ IF r.raised
           THEN /\ last' = Answer(op, current_user_id, order_id, new_status, order, r)
                /\ UNCHANGED sessions
           ELSE /\ sessions' = [sessions EXCEPT ![w] =
                      [pc |-> "loaded", op |-> op, caller |-> current_user_id,
                       order_id |-> order_id, target |-> new_status,
                       order |-> order]]
                /\ UNCHANGED last
        /\ UNCHANGED orders
        /\ UNCHANGED identity_and_clock

\* db.commit() of the pending assignment, db.refresh(order) and the answer
Finish(w) ==
    LET s == sessions[w]
        r == Handle(s.op, s.order, s.caller, s.target)
    IN  /\ s.pc = "loaded"
        /\ orders' = flush(s.order_id, s.order, r)
        /\ last' = Answer(s.op, s.caller, s.order_id, s.target, s.order, r)
        /\ sessions' = [sessions EXCEPT ![w] = Idle]
        /\ UNCHANGED identity_and_clock

NextConc ==
    \/ \E u \in Users, body \in SampleBodies : create_order(u, body)
    \/ \E w \in Workers, u \in Users, id \in RequestIds, s \in OrderStatus :
          Query(w, "updateStatus", u, id, s)
    \/ \E w \in Workers, u \in Users, id \in RequestIds :
          Query(w, "cancel", u, id, "NONE")
    \/ \E w \in Workers : Finish(w)

SpecConc == Init /\ [][NextConc]_vars

TypeOK ==
    /\ orders \in Seq([user_id : Users, items : ItemLists, status : OrderStatus,
                       total_amount : Nat])
    /\ Len(orders) <= MaxOrders
    /\ last.op \in {"none", "create", "get", "list", "updateStatus", "cancel",
                   "listUsers", "issue", "verify"}
    /\ \A w \in Workers : sessions[w].pc \in {"idle", "loaded"}

\* ------------------------------------------------ one order, any items
\* the store holds at most one order; its body is any of Bodies, and the
\* requests that follow address it
NextTotal ==
    \/ orders = <<>> /\ \E u \in Users, body \in Bodies : create_order(u, body)
    \/ \E u \in Users, id \in DOMAIN orders : get_order(u, id)
    \/ \E u \in Users, id \in DOMAIN orders, s \in OrderStatus :
          update_order_status(u, id, s)
    \/ \E u \in Users, id \in DOMAIN orders : cancel_order(u, id)

SpecTotal == Init /\ [][NextTotal]_vars

\* ------------------------------------------------------- GET / (listing)
\* Query(...) parameters of get_user_orders: page >= 1, 1 <= page_size <= 100,
\* status_filter an OrderStatus or absent, sort_by and sort_order any string
SortFields == {"created_at", "total_amount", "status", "user_id", "metadata",
               "unknown"}

Queries == [page : 1..MaxPage, page_size : 1..MaxPageSize,
            status_filter : OrderStatus \cup {"NONE"},
            sort_by : SortFields, sort_order : {"asc", "desc"}]

\* the default query and the first page of the cancelled orders
SampleQueries ==
    {[page |-> 1, page_size |-> MaxPageSize, status_filter |-> f,
      sort_by |-> "created_at", sort_order |-> "desc"] : f \in {"NONE", "CANCELLED"}}

\* variant of filter_rows without the filter on Order.user_id
filter_rows_of_everyone(current_user_id, status_filter) ==
    {o \in DOMAIN orders :
        status_filter # "NONE" => orders[o].status = status_filter}

\* db.query(Order).filter(Order.user_id == current_user_id) and, if
\* status_filter: .filter(Order.status == status_filter)
filter_rows(current_user_id, status_filter) ==
    {o \in DOMAIN orders :
        /\ orders[o].user_id = current_user_id
        /\ status_filter # "NONE" => orders[o].status = status_filter}

\* getattr(Order, sort_by, Order.created_at): the attribute of the class Order
\* with that name if there is one (a column, or Base.metadata), else created_at
sort_column(sort_by) ==
    IF sort_by \in {"created_at", "total_amount", "status", "user_id", "metadata"}
    THEN sort_by
    ELSE "created_at"

\* position of a status in the declaration of the enum OrderStatus, which is
\* the sort order of the database's enum type
StatusRank(s) ==
    CASE s = "CREATED" -> 1
      [] s = "IN_PROGRESS" -> 2
      [] s = "COMPLETED" -> 3
      [] s = "CANCELLED" -> 4

\* the value ORDER BY compares; created_at is datetime.utcnow() at insertion
\* and rises with the position of the row
sort_key(o, column) ==
    CASE column = "created_at" -> o
      [] column = "total_amount" -> orders[o].total_amount
      [] column = "status" -> StatusRank(orders[o].status)
      [] column = "user_id" -> orders[o].user_id

\* query.order_by(asc(sort_column)) if sort_order == "asc" else desc: the
\* sequences the database may return; rows with equal keys come in any order
order_by(rows, column, sort_order) ==
    {result \in [1..Cardinality(rows) -> rows] :
        /\ \A i, j \in DOMAIN result : i # j => result[i] # result[j]
        /\ \A i, j \in DOMAIN result : i < j =>
              IF sort_order = "asc"
              THEN sort_key(result[i], column) <= sort_key(result[j], column)
              ELSE sort_key(result[i], column) >= sort_key(result[j], column)}

\* variant of page_count without the value for an empty result
page_count_ceil_only(total, page_size) == (total + page_size - 1) \div page_size

\* pages = math.ceil(total / page_size) if total > 0 else 1
page_count(total, page_size) ==
    IF total > 0 THEN (total + page_size - 1) \div page_size ELSE 1

\* query.offset((page - 1) * page_size).limit(page_size).all()
offset_limit(result, page, page_size) ==
    LET offset == (page - 1) * page_size
    IN  IF offset >= Len(result) THEN <<>>
        ELSE SubSeq(result, offset + 1,
                    IF offset + page_size < Len(result)
                    THEN offset + page_size ELSE Len(result))

\* what the client holds after this page: the pages of one query received one
\* after the other with no other request in between, concatenated
concatenated(current_user_id, q, items) ==
    IF /\ last.op = "list"
       /\ last.success
       /\ last.caller = current_user_id
       /\ q.page > 1
       /\ last.listing.query = [q EXCEPT !.page = q.page - 1]
    THEN [from |-> last.listing.run.from, items |-> last.listing.run.items \o items]
    ELSE [from |-> q.page, items |-> items]

get_user_orders(current_user_id, q) ==
    LET rows   == filter_rows(current_user_id, q.status_filter)
        column == sort_column(q.sort_by)
        total  == Cardinality(rows)
        answer == [NoRequest EXCEPT !.op = "list", !.caller = current_user_id]
    IN  /\ IF column = "metadata"
           THEN \* asc(Base.metadata) raises ArgumentError; except Exception
                last' = [answer EXCEPT !.listing.query = q,
                                       !.code = "FETCH_ORDERS_FAILED"]
           ELSE \E result \in order_by(rows, column, q.sort_order) :
                  LET items == offset_limit(result, q.page, q.page_size)
                  IN  last' = [answer EXCEPT
                                 !.listing = [query |-> q, items |-> items,
                                              total |-> total,
                                              pages |-> page_count(total, q.page_size),
                                              run |-> concatenated(current_user_id, q, items)],
                                 !.success = TRUE, !.code = "OK"]
        /\ UNCHANGED <<orders, sessions>>
        /\ UNCHANGED identity_and_clock

\* every request of the order store, listings with the sample queries
NextAll ==
    \/ Next
    \/ \E u \in Users, q \in SampleQueries : get_user_orders(u, q)

SpecAll == Init /\ [][NextAll]_vars

\* rows of a store to be listed: orders of two users, two of them with equal
\* totals, the cancelled one older or newer than the others
ListRows ==
    {[new_order(u, OrderCreate([NoBody EXCEPT !.items = <<[amount |-> 1, price |-> p]>>]))
        EXCEPT !.status = st] :
        <<u, p, st>> \in {<<1, 1, "CREATED">>, <<1, 1, "CANCELLED">>,
                          <<1, 2, "IN_PROGRESS">>, <<1, 2, "CREATED">>,
                          <<2, 1, "CREATED">>}}

ListTables == UNION {[1..n -> ListRows] : n \in 0..MaxListed}

InitList ==
    /\ orders \in ListTables
    /\ sessions = [w \in Workers |-> Idle]
    /\ last = NoRequest
    /\ users = <<>>
    /\ now = 0

\* one client pages through one query of a store that nobody writes
NextList ==
    \/ /\ last.op = "none"
       /\ \E u \in Users, q \in Queries : get_user_orders(u, q)
    \/ /\ last.op = "list"
       /\ last.success
       /\ last.listing.query.page < last.listing.pages
       /\ get_user_orders(last.caller, [last.listing.query EXCEPT !.page = @ + 1])

SpecList == InitList /\ [][NextList]_vars

\* ----------------------------------------------------------- credentials
\* settings.JWT_TOKEN_EXPIRE_MINUTES
JWT_TOKEN_EXPIRE_MINUTES == 30

\* settings.JWT_SECRET_KEY, the same value in the three services
JWT_SECRET_KEY == "secret"

\* the instants the clock is observed at: the first minutes, and the minutes
\* from the default expiry of a credential issued at 0 on
Times == (0..MaxClock) \cup
         (JWT_TOKEN_EXPIRE_MINUTES..(JWT_TOKEN_EXPIRE_MINUTES + MaxClock))

\* expires_delta: None or timedelta(minutes=m)
Deltas == {NoDelta} \cup {[given |-> TRUE, minutes |-> m] : m \in 0..MaxTtl}

\* data: {"sub": str(user.id), ...}, or a dict without sub
Datas == {[has_sub |-> TRUE, sub |-> u, email |-> <<>>] : u \in Users}
         \cup {[has_sub |-> FALSE, sub |-> 0, email |-> <<>>]}

\* credentials signed with another key than JWT_SECRET_KEY
ForgedTokens == {[key |-> "other", has_sub |-> d.has_sub, sub |-> d.sub,
                  email |-> d.email,
                  has_exp |-> TRUE, exp |-> JWT_TOKEN_EXPIRE_MINUTES + MaxClock + 1] :
                    d \in Datas}

\* if expires_delta: expire = utcnow() + expires_delta, else: expire =
\* utcnow() + timedelta(minutes=JWT_TOKEN_EXPIRE_MINUTES); a timedelta of
\* zero is false
create_access_token(data, expires_delta) ==
    LET expire == IF expires_delta.given /\ expires_delta.minutes # 0
                  THEN now + expires_delta.minutes
                  ELSE now + JWT_TOKEN_EXPIRE_MINUTES
    IN  [key |-> JWT_SECRET_KEY, has_sub |-> data.has_sub, sub |-> data.sub,
         email |-> data.email,
         has_exp |-> TRUE, exp |-> expire]

\* jwt.decode(token, key, algorithms): JWTError if the signature was not made
\* with key, ExpiredSignatureError (a JWTError) if exp < now; else the payload
jwt_decode(token, key) ==
    IF token.key # key THEN [JWTError |-> TRUE, payload |-> NoToken]
    ELSE IF token.has_exp /\ token.exp < now THEN [JWTError |-> TRUE, payload |-> NoToken]
    ELSE [JWTError |-> FALSE, payload |-> token]

\* raise HTTPException(401, "Could not validate credentials")
Unauthorized == [success |-> FALSE, code |-> "HTTP_401 Could not validate credentials",
                 sub |-> 0]

\* variant of orders_decode_access_token without the check of sub
orders_decode_access_token_any_payload(token) ==
    LET d == jwt_decode(token, JWT_SECRET_KEY)
    IN  IF d.JWTError THEN Unauthorized
        ELSE [success |-> TRUE, code |-> "OK", sub |-> d.payload.sub]

\* service_orders/auth.py decode_access_token
orders_decode_access_token(token) ==
    LET d == jwt_decode(token, JWT_SECRET_KEY)
    IN  IF d.JWTError THEN Unauthorized
        ELSE IF ~d.payload.has_sub THEN Unauthorized
        ELSE [success |-> TRUE, code |-> "OK", sub |-> d.payload.sub]

\* service_users/auth.py decode_access_token
users_decode_access_token(token) ==
    LET d == jwt_decode(token, JWT_SECRET_KEY)
    IN  IF d.JWTError THEN Unauthorized
        ELSE IF ~d.payload.has_sub THEN Unauthorized
        ELSE [success |-> TRUE, code |-> "OK", sub |-> d.payload.sub]

\* api_gateway/auth.py decode_access_token
gateway_decode_access_token(token) ==
    LET d == jwt_decode(token, JWT_SECRET_KEY)
    IN  IF d.JWTError THEN Unauthorized
        ELSE IF ~d.payload.has_sub THEN Unauthorized
        ELSE [success |-> TRUE, code |-> "OK", sub |-> d.payload.sub]

Services == {"orders", "users", "gateway"}

decode_access_token(service, token) ==
    CASE service = "orders" -> orders_decode_access_token(token)
      [] service = "users" -> users_decode_access_token(token)
      [] service = "gateway" -> gateway_decode_access_token(token)

\* -------------------------------------------- identity store: GET /users/
\* the email of the i-th row; the column is unique
Email(i) == [k \in 1..i |-> "m"]

\* bcrypt.hashpw(password, bcrypt.gensalt()): the hash determines no password
\* but lets checkpw recognise the one it was made of (the salt is a part of the
\* hash and plays no part in the verdict of checkpw)
hash_password(password) == [bcrypt |-> password]

\* bcrypt.checkpw(plain_password, hashed_password)
verify_password(plain_password, hashed_password) ==
    hash_password(plain_password) = hashed_password

\* a password of n characters c
Password(n, c) == [k \in 1..n |-> c]

\* name and roles of the users of a listed identity store (letters in lower case)
UserKinds == {[name |-> <<"a">>, roles |-> {"admin"}],
              [name |-> <<"b">>, roles |-> {"client"}],
              [name |-> <<"a", "b">>, roles |-> {"client", "admin"}]}

UserTables ==
    {[i \in DOMAIN t |-> [name |-> t[i].name, email |-> Email(i), roles |-> t[i].roles,
                           password_hash |-> hash_password(Password(8, "p"))]] :
        t \in UNION {[1..n -> UserKinds] : n \in 0..MaxUsers}}

\* search: absent or empty (<<>>) or a string; role: absent or empty ("") or a string
Searches == {<<>>, <<"a">>, <<"m", "m">>, <<"z">>}

RoleFilters == {"", "admin", "client", "manager"}

\* column.ilike(f"%{search}%"): the value contains the search string
ilike(value, search) ==
    \E i \in 1..(Len(value) - Len(search) + 1) :
        SubSeq(value, i, i + Len(search) - 1) = search

\* db.query(User) with the filters of get_all_users
filter_users(search, role) ==
    {u \in DOMAIN users :
        /\ search # <<>> => (ilike(users[u].name, search) \/ ilike(users[u].email, search))
        /\ role # "" => role \in users[u].roles}

\* a query without ORDER BY returns its rows in any order
any_order(rows) ==
    {result \in [1..Cardinality(rows) -> rows] :
        \A i, j \in DOMAIN result : i # j => result[i] # result[j]}

\* pages = math.ceil(total / page_size)
users_page_count(total, page_size) == (total + page_size - 1) \div page_size

\* variant of get_current_user that looks the user up by the email claim
get_current_user_by_email(token) ==
    LET r == users_decode_access_token(token)
    IN  IF ~r.success THEN r
        ELSE IF ~\E u \in DOMAIN users : users[u].email = token.email
        THEN [success |-> FALSE, code |-> "HTTP_401 User not found", sub |-> r.sub]
        ELSE [r EXCEPT !.sub = CHOOSE u \in DOMAIN users : users[u].email = token.email]

\* Depends(get_current_user): the credential is decoded and the row of its
\* subject is read from the table; HTTPException(401, "User not found")
get_current_user(token) ==
    LET r == users_decode_access_token(token)
    IN  IF ~r.success THEN r
        ELSE IF r.sub \notin DOMAIN users
        THEN [success |-> FALSE, code |-> "HTTP_401 User not found", sub |-> r.sub]
        ELSE r

\* the request answered before the one being answered
Prev == [op |-> last.op, caller |-> last.caller, success |-> last.success]

\* variant of require_admin that lets every stored user pass
require_admin_anyone(u) == TRUE

\* Depends(require_admin): "admin" in current_user.roles, on the row that
\* get_current_user has just read
require_admin(u) == "admin" \in users[u].roles

\* get_all_users behind Depends(require_admin)
get_all_users(token, page, page_size, search, role) ==
    LET current == get_current_user(token)
        subject == current.sub
        rows   == filter_users(search, role)
        total  == Cardinality(rows)
        q      == [page |-> page, page_size |-> page_size, search |-> search,
                   role |-> role]
        answer == [NoRequest EXCEPT !.op = "listUsers", !.caller = subject,
                                    !.token = token, !.prev = Prev,
                                    !.listing.query = q]
    IN  /\ IF ~current.success
           THEN last' = [answer EXCEPT !.code = current.code]
           ELSE IF ~require_admin(subject)
           THEN \* require_admin: HTTPException(403, "Admin access required")
                last' = [answer EXCEPT !.code = "HTTP_403"]
           ELSE \E result \in any_order(rows) :
                  last' = [answer EXCEPT
                             !.listing.items = offset_limit(result, page, page_size),
                             !.listing.total = total,
                             !.listing.pages = users_page_count(total, page_size),
                             !.success = TRUE, !.code = "OK"]
        /\ UNCHANGED <<orders, sessions, users, now>>

InitUsers ==
    /\ orders = <<>>
    /\ sessions = [w \in Workers |-> Idle]
    /\ last = NoRequest
    /\ users \in UserTables
    /\ now = 0

NextUsers ==
    /\ last.op = "none"
    /\ \E data \in Datas, page \in 1..MaxPage,
          page_size \in 1..MaxPageSize, search \in Searches, role \in RoleFilters :
          get_all_users(create_access_token(data, NoDelta), page, page_size, search, role)

SpecUsers == InitUsers /\ [][NextUsers]_vars

\* ------------------------------------- identity store: accounts and profiles
\* schemas.py: class UserRole
UserRole == {"admin", "client"}

\* the addresses, names and passwords the requests carry
Emails == {Email(1), Email(2)}

Names == {<<"a">>, <<"b">>}

SamplePasswords == {Password(8, "p"), Password(8, "q"), Password(7, "p")}

\* roles of a register body: omitted, a list of UserRole values (as a set, the
\* empty list included), or a list with a value that is no UserRole
RolesInputs == {NoRoles} \cup {[given |-> TRUE, values |-> r] : r \in SUBSET UserRole}
               \cup {[given |-> TRUE, values |-> {"manager"}]}

RegisterBodies == [email : Emails, password : SamplePasswords, name : Names,
                   roles : RolesInputs]

LoginBodies == [email : Emails, password : SamplePasswords]

\* bodies of PUT /users/me: each field absent or given
UpdateBodies == [name : {Absent} \cup {[given |-> TRUE, value |-> n] : n \in Names},
                 email : {Absent} \cup {[given |-> TRUE, value |-> e] : e \in Emails}]

\* variant of UserRegister without validate_roles
UserRegister_no_validator(body) ==
    [valid |-> /\ Len(body.password) >= 8
               /\ Len(body.name) >= 1 /\ Len(body.name) <= 100
               /\ body.roles.given => body.roles.values \subseteq UserRole,
     email |-> body.email, password |-> body.password, name |-> body.name,
     roles |-> IF ~body.roles.given THEN {"client"} ELSE body.roles.values]

\* schemas.py UserRegister: password min_length=8, name of 1..100 characters,
\* roles a list of UserRole with default [CLIENT]; validate_roles turns an
\* empty list into [CLIENT]
UserRegister(body) ==
    [valid |-> /\ Len(body.password) >= 8
               /\ Len(body.name) >= 1 /\ Len(body.name) <= 100
               /\ body.roles.given => body.roles.values \subseteq UserRole,
     email |-> body.email, password |-> body.password, name |-> body.name,
     roles |-> IF ~body.roles.given \/ body.roles.values = {}
               THEN {"client"} ELSE body.roles.values]

\* variant of the table whose column email is not unique
IntegrityError_no_unique(table) == FALSE

\* models.py: email = Column(String, unique=True); the commit of an INSERT or
\* UPDATE that gives two rows the same email raises IntegrityError
IntegrityError(table) ==
    \E i, j \in DOMAIN table : i # j /\ table[i].email = table[j].email

\* db.query(User).filter(User.email == email).first(): the id of the row, or 0
user_by_email(email) ==
    IF \E u \in DOMAIN users : users[u].email = email
    THEN CHOOSE u \in DOMAIN users : users[u].email = email
    ELSE 0

\* variant of new_user that hashes the name
new_user_hashes_name(user_data) ==
    [name |-> user_data.name, email |-> user_data.email, roles |-> user_data.roles,
     password_hash |-> hash_password(user_data.name)]

\* register, lines 33-38: the row handed to db.add
new_user(user_data) ==
    [name |-> user_data.name, email |-> user_data.email, roles |-> user_data.roles,
     password_hash |-> hash_password(user_data.password)]

\* what a request to the identity store is recorded with
AccountRequest(op, body) ==
    [NoRequest EXCEPT !.op = op,
                      !.account = [NoAccount EXCEPT
                                     !.email = [given |-> TRUE, value |-> body.email],
                                     !.password = body.password]]

\* variant of the first half of register that finds no existing user
register_query_finds_none(user_data) == Return(TRUE, "OK")

\* register, lines 22-30: the SELECT by email and the envelope
\* USER_ALREADY_EXISTS it returns
register_query(user_data) ==
    IF user_by_email(user_data.email) # 0
    THEN Return(FALSE, "USER_ALREADY_EXISTS")
    ELSE Return(TRUE, "OK")

\* register, lines 33-44 and 54-61: db.add, db.commit, db.refresh and the
\* envelope; except Exception: db.rollback() and REGISTRATION_FAILED
register_commit(body, user_data) ==
    LET table  == Append(users, new_user(user_data))
        answer == [AccountRequest("register", body) EXCEPT
                     !.account.name = [given |-> TRUE, value |-> body.name],
                     !.account.roles = body.roles]
    IN  IF IntegrityError(table)
        THEN /\ last' = [answer EXCEPT !.code = "REGISTRATION_FAILED"]
             /\ UNCHANGED users
        ELSE /\ users' = table
             /\ last' = [answer EXCEPT !.account.id = Len(table),
                                       !.success = TRUE, !.code = "OK"]

\* POST /auth/register handled in one piece
register(body) ==
    LET user_data == UserRegister(body)
        r         == register_query(user_data)
        answer    == [AccountRequest("register", body) EXCEPT
                        !.account.name = [given |-> TRUE, value |-> body.name],
                        !.account.roles = body.roles]
    IN  /\ IF ~user_data.valid
           THEN last' = [answer EXCEPT !.code = "VALIDATION_ERROR"] /\ UNCHANGED users
           ELSE IF ~r.success
           THEN last' = [answer EXCEPT !.code = r.code] /\ UNCHANGED users
           ELSE register_commit(body, user_data)
        /\ UNCHANGED <<orders, sessions, now>>

\* login, line 71: not (not user or not verify_password(...))
login_check(user, password) ==
    user # 0 /\ verify_password(password, users[user].password_hash)

\* variant of login that tells an unknown email from a wrong password
login_failure_by_cause(user) ==
    IF user = 0 THEN "USER_NOT_FOUND" ELSE "INVALID_CREDENTIALS"

\* login, lines 70-77: the envelope returned when the check fails
login_failure(user) == "INVALID_CREDENTIALS"

\* POST /auth/login: INVALID_CREDENTIALS, or a credential of the user for
\* timedelta(minutes=settings.JWT_TOKEN_EXPIRE_MINUTES)
login(body) ==
    LET user   == user_by_email(body.email)
        answer == AccountRequest("login", body)
    IN  /\ IF ~login_check(user, body.password)
           THEN last' = [answer EXCEPT !.code = login_failure(user)]
           ELSE last' = [answer EXCEPT
                           !.account.id = user,
                           !.token = create_access_token(
                                        [has_sub |-> TRUE, sub |-> user,
                                         email |-> users[user].email],
                                        [given |-> TRUE,
                                         minutes |-> JWT_TOKEN_EXPIRE_MINUTES]),
                           !.success = TRUE, !.code = "OK"]
        /\ UNCHANGED <<orders, sessions, users, now>>

\* update_current_user_profile, lines 43-52: the SELECT by the new email
update_query(current_user, update_data) ==
    IF /\ update_data.email.given
       /\ update_data.email.value # users[current_user].email
       /\ user_by_email(update_data.email.value) # 0
    THEN Raise("EMAIL_ALREADY_EXISTS")
    ELSE Return(TRUE, "OK")

\* update_current_user_profile, lines 50-54: the assignments to the row the
\* session loaded; the UPDATE writes the columns whose value they changed
updated_user(current_user, loaded, update_data) ==
    [users[current_user] EXCEPT
       !.name = IF update_data.name.given /\ update_data.name.value # loaded.name
                THEN update_data.name.value ELSE @,
       !.email = IF update_data.email.given /\ update_data.email.value # loaded.email
                 THEN update_data.email.value ELSE @]

\* what a profile update is recorded with
UpdateRequest(token, current_user, update_data) ==
    [NoRequest EXCEPT !.op = "updateProfile", !.caller = current_user,
                      !.token = token,
                      !.account = [NoAccount EXCEPT !.email = update_data.email,
                                                    !.name = update_data.name,
                                                    !.id = current_user]]

\* update_current_user_profile, lines 60-68: db.commit, db.refresh, the
\* envelope; except Exception: db.rollback() and UPDATE_PROFILE_FAILED
update_commit(token, current_user, loaded, update_data, r) ==
    LET table  == [users EXCEPT ![current_user] =
                      updated_user(current_user, loaded, update_data)]
        answer == UpdateRequest(token, current_user, update_data)
        failed == except_Exception(r, "UPDATE_PROFILE_FAILED")
    IN  IF failed.raised
        THEN last' = [answer EXCEPT !.code = failed.code] /\ UNCHANGED users
        ELSE IF IntegrityError(table)
        THEN last' = [answer EXCEPT !.code = "UPDATE_PROFILE_FAILED"] /\ UNCHANGED users
        ELSE /\ users' = table
             /\ last' = [answer EXCEPT !.success = TRUE, !.code = "OK"]

\* PUT /users/me handled in one piece, behind Depends(get_current_user)
update_current_user_profile(token, update_data) ==
    LET current == get_current_user(token)
    IN  /\ IF ~current.success
           THEN /\ last' = [UpdateRequest(token, current.sub, update_data) EXCEPT
                              !.code = current.code]
                /\ UNCHANGED users
           ELSE update_commit(token, current.sub, users[current.sub], update_data,
                              update_query(current.sub, update_data))
        /\ UNCHANGED <<orders, sessions, now>>

\* the column roles is written by register only; an operator of the database
\* changes the roles of a stored user
store_roles(u, roles) ==
    /\ users[u].roles # roles
    /\ users' = [users EXCEPT ![u].roles = roles]
    /\ UNCHANGED <<orders, sessions, last, now>>

\* the credentials clients hold: login has issued one to every stored user;
\* and one signed with another key
Credentials ==
    {create_access_token([has_sub |-> TRUE, sub |-> u, email |-> users[u].email],
                         [given |-> TRUE, minutes |-> JWT_TOKEN_EXPIRE_MINUTES]) :
        u \in DOMAIN users}

ForgedCredential == [key |-> "other", has_sub |-> TRUE, sub |-> 1,
                     email |-> Email(1), has_exp |-> TRUE,
                     exp |-> JWT_TOKEN_EXPIRE_MINUTES]

\* account requests with the default role and one name: names change by
\* profile updates
AccountBodies == {body \in RegisterBodies : body.roles = NoRoles /\ body.name = <<"a">>}

NextIdentity ==
    \/ \E body \in AccountBodies : register(body)
    \/ \E body \in LoginBodies : login(body)
    \/ \E token \in Credentials \cup {ForgedCredential}, update_data \in UpdateBodies :
          update_current_user_profile(token, update_data)

SpecIdentity == Init /\ [][NextIdentity]_vars

\* ---------------------------------- identity store: concurrent workers
\* the row of a session that has loaded none
NoUser == [name |-> <<>>, email |-> <<>>, roles |-> {},
           password_hash |-> hash_password(<<>>)]

\* what the session of a worker holds between its SELECT and its commit
Pending(op, body, token, current_user, loaded) ==
    [pc |-> "checked", op |-> op, caller |-> current_user, order_id |-> 0,
     target |-> "NONE", order |-> NoRow, body |-> body, token |-> token,
     loaded |-> loaded]

\* register up to the SELECT of line 23: an existing user ends the request
register_begin(w, body) ==
    LET user_data == UserRegister(body)
        r         == register_query(user_data)
    IN  /\ sessions[w].pc = "idle"
        /\ user_data.valid
        /\ IF ~r.success
           THEN /\ last' = [AccountRequest("register", body) EXCEPT
                              !.account.name = [given |-> TRUE, value |-> body.name],
                              !.account.roles = body.roles, !.code = r.code]
                /\ UNCHANGED sessions
           ELSE /\ sessions' = [sessions EXCEPT ![w] =
                                  Pending("register", body, NoToken, 0, NoUser)]
                /\ UNCHANGED last
        /\ UNCHANGED <<orders, users, now>>

\* register from db.add on
register_finish(w) ==
    LET s == sessions[w]
    IN  /\ s.pc = "checked" /\ s.op = "register"
        /\ register_commit(s.body, UserRegister(s.body))
        /\ sessions' = [sessions EXCEPT ![w] = Idle]
        /\ UNCHANGED <<orders, now>>

\* update_current_user_profile up to the SELECT of line 46: the raise of line
\* 48 ends the request in the except clause
update_begin(w, token, update_data) ==
    LET current == get_current_user(token)
        r       == update_query(current.sub, update_data)
    IN  /\ sessions[w].pc = "idle"
        /\ current.success
        /\ IF r.raised
           THEN /\ update_commit(token, current.sub, users[current.sub], update_data, r)
                /\ UNCHANGED sessions
           ELSE /\ sessions' = [sessions EXCEPT ![w] =
                                  Pending("updateProfile", update_data, token,
                                          current.sub, users[current.sub])]
                /\ UNCHANGED <<last, users>>
        /\ UNCHANGED <<orders, now>>

\* update_current_user_profile from the assignments on
update_finish(w) ==
    LET s == sessions[w]
    IN  /\ s.pc = "checked" /\ s.op = "updateProfile"
        /\ update_commit(s.token, s.caller, s.loaded, s.body, Return(TRUE, "OK"))
        /\ sessions' = [sessions EXCEPT ![w] = Idle]
        /\ UNCHANGED <<orders, now>>

\* the requests the workers handle: registers with one password and name,
\* and changes of the email
WorkerBodies == {body \in AccountBodies : body.password = Password(8, "p")}

WorkerUpdates == {update_data \in UpdateBodies :
                    update_data.email.given /\ ~update_data.name.given}

NextIdentityConc ==
    \/ \E w \in Workers, body \in WorkerBodies :
          Len(users) < Cardinality(Emails) /\ register_begin(w, body)
    \/ \E w \in Workers : register_finish(w)
    \/ \E w \in Workers, token \in Credentials, update_data \in WorkerUpdates :
          update_begin(w, token, update_data)
    \/ \E w \in Workers : update_finish(w)

SpecIdentityConc == Init /\ [][NextIdentityConc]_vars

\* account requests with every roles field, one password and one name
RolesBodies == {body \in RegisterBodies :
                  body.password = Password(8, "p") /\ body.name = <<"a">>}

NextRoles ==
    \/ \E body \in RolesBodies : register(body)
    \/ \E token \in Credentials \cup {ForgedCredential} :
          get_all_users(token, 1, 1, <<>>, "")
    \/ \E u \in DOMAIN users, roles \in (SUBSET UserRole) \ {{}} : store_roles(u, roles)

SpecRoles == Init /\ [][NextRoles]_vars

\* registers with every roles field, and profile updates
NextProfiles ==
    \/ \E body \in RolesBodies : register(body)
    \/ \E token \in Credentials \cup {ForgedCredential}, update_data \in UpdateBodies :
          update_current_user_profile(token, update_data)

SpecProfiles == Init /\ [][NextProfiles]_vars

\* ------------------------------------------------------------ edge gateway
\* the routes of api_gateway/routers: the service a route forwards to and
\* whether it depends on verify_token
GatewayRoutes ==
    {[service |-> "orders", name |-> n, protected |-> TRUE] :
        n \in {"create_order", "get_user_orders", "get_order", "update_order_status",
               "cancel_order"}}
    \cup {[service |-> "users", name |-> n, protected |-> TRUE] :
        n \in {"get_current_user_profile", "update_current_user_profile",
               "get_all_users"}}
    \cup {[service |-> "users", name |-> n, protected |-> FALSE] :
        n \in {"register", "login"}}

\* what awaiting client.<method>(..., timeout=30.0) ends with: a response of
\* the service (its status code and the JSON value of its body), or an
\* httpx.RequestError: no connection, or no answer within the timeout
Downstream ==
    {[kind |-> "response", status_code |-> a[1], json |-> [success |-> a[2], code |-> a[3]]] :
        a \in {<<200, TRUE, "OK">>, <<201, TRUE, "OK">>,
               <<200, FALSE, "USER_ALREADY_EXISTS">>,
               <<400, FALSE, "UPDATE_ORDER_FAILED">>,
               <<401, FALSE, "HTTP_401 Could not validate credentials">>}}
    \cup {[kind |-> k, status_code |-> 0, json |-> [success |-> FALSE, code |-> "NONE"]] :
        k \in {"ConnectError", "TimeoutException"}}

\* a credential of user 1 signed with JWT_SECRET_KEY whose exp has passed
ExpiredCredential == [key |-> JWT_SECRET_KEY, has_sub |-> TRUE, sub |-> 1,
                      email |-> Email(1),
                      has_exp |-> TRUE, exp |-> now - 1]

\* security = HTTPBearer(): a request without an Authorization header is
\* refused by the scheme before the dependency runs, with "Not authenticated";
\* the status code is 403 or 401 according to the FastAPI release installed
HTTPBearer ==
    {[success |-> FALSE, status_code |-> 403, code |-> "HTTP_403 Not authenticated"],
     [success |-> FALSE, status_code |-> 401, code |-> "HTTP_401 Not authenticated"]}

\* variant of verify_token that only takes the credential out of the header
verify_token_presence_only(token) ==
    [success |-> TRUE, code |-> "OK", token |-> token]

\* api_gateway/auth.py verify_token: the credential is decoded to check it
\* and returned as received
verify_token(token) ==
    [success |-> gateway_decode_access_token(token).success,
     code |-> gateway_decode_access_token(token).code, token |-> token]

\* variant of JSONResponse that answers 200 whatever the status code
JSONResponse_always_200(content, status_code) ==
    [status_code |-> 200, json |-> content]

\* JSONResponse(response.json(), status_code=response.status_code)
JSONResponse(content, status_code) == [status_code |-> status_code, json |-> content]

\* the envelopes the handler of ApiException answers with: the code of the
\* exception; the status code is 400 as in the services or 503
api_exception_handler(code) ==
    {[status_code |-> c, json |-> [success |-> FALSE, code |-> code]] : c \in {400, 503}}

\* variant of the routes that calls the service once more after a RequestError
retry_once(calls) == calls < 2

\* the routes call client.<method> once, in no loop
retry(calls) == FALSE

\* a request answered by the gateway
GatewayAnswer(route, token, sent, calls, outcome, response) ==
    [NoRequest EXCEPT !.op = "gateway", !.service = route.service, !.token = token,
                      !.success = response.json.success, !.code = response.json.code,
                      !.gateway = [route |-> route.name, protected |-> route.protected,
                                   sent |-> sent, calls |-> calls, downstream |-> outcome,
                                   status_code |-> response.status_code,
                                   json |-> response.json]]

\* a route up to its await: Depends(verify_token) refuses a credential that
\* does not verify with 401; otherwise the downstream call is made, with the
\* header Authorization: Bearer {token} on the routes that take a token
gateway_call(w, route, token) ==
    LET v == verify_token(token)
    IN  /\ sessions[w].pc = "idle"
        /\ IF route.protected /\ token = NoToken
           THEN /\ \E e \in HTTPBearer :
                      last' = GatewayAnswer(route, token, NoToken, 0,
                              [kind |-> "NONE", status_code |-> 0,
                               json |-> [success |-> FALSE, code |-> "NONE"]],
                              [status_code |-> e.status_code,
                               json |-> [success |-> FALSE, code |-> e.code]])
                /\ UNCHANGED sessions
           ELSE IF route.protected /\ ~v.success
           THEN /\ last' = GatewayAnswer(route, token, NoToken, 0,
                              [kind |-> "NONE", status_code |-> 0,
                               json |-> [success |-> FALSE, code |-> "NONE"]],
                              [status_code |-> 401,
                               json |-> [success |-> FALSE, code |-> v.code]])
                /\ UNCHANGED sessions
           ELSE /\ sessions' = [sessions EXCEPT ![w] =
                      [pc |-> "awaiting", route |-> route, token |-> token,
                       sent |-> IF route.protected THEN v.token ELSE NoToken,
                       calls |-> 1]]
                /\ UNCHANGED last
        /\ UNCHANGED <<orders, users, now>>

\* a route from its await on: the response is relayed, a RequestError
\* becomes ApiException("SERVICE_UNAVAILABLE", ...)
gateway_return(w, outcome) ==
    LET s == sessions[w]
    IN  /\ s.pc = "awaiting"
        /\ IF outcome.kind = "response"
           THEN /\ last' = GatewayAnswer(s.route, s.token, s.sent, s.calls, outcome,
                              JSONResponse(outcome.json, outcome.status_code))
                /\ sessions' = [sessions EXCEPT ![w] = Idle]
           ELSE IF retry(s.calls)
           THEN /\ sessions' = [sessions EXCEPT ![w].calls = s.calls + 1]
                /\ UNCHANGED last
           ELSE /\ \E response \in api_exception_handler("SERVICE_UNAVAILABLE") :
                      last' = GatewayAnswer(s.route, s.token, s.sent, s.calls, outcome,
                                            response)
                /\ sessions' = [sessions EXCEPT ![w] = Idle]
        /\ UNCHANGED <<orders, users, now>>

\* the gateway keeps no state between requests: one request is followed at
\* a time, on any worker; the credentials presented are one that verifies,
\* one without sub, one signed with another key, one that has expired, and
\* none
NextGateway ==
    \/ /\ \A v \in Workers : sessions[v].pc = "idle"
       /\ \E w \in Workers, route \in GatewayRoutes,
             token \in {create_access_token(data, NoDelta) :
                           data \in {d \in Datas : d.sub <= 1}}
                       \cup {ForgedCredential, ExpiredCredential, NoToken} :
             gateway_call(w, route, token)
    \/ \E w \in Workers, outcome \in Downstream : gateway_return(w, outcome)

SpecGateway == Init /\ [][NextGateway]_vars

\* the await of a call with timeout=30.0 ends, and the route then runs to its
\* return or raise
SpecGatewayLive ==
    SpecGateway /\ \A w \in Workers : WF_vars(\E outcome \in Downstream : gateway_return(w, outcome))

\* ------------------------------------------------- the body of a failure
\* the body a failure code reaches its caller in: HTTPException (auth.py of
\* both services) is answered by FastAPI's own handler as {"detail": ...},
\* for which main.py registers no handler; register and login return the
\* envelope with message=str(e); every other failure is the envelope with
\* the message written in the handler or built by validation_exception_handler
failure_body(code) ==
    IF code \in {"HTTP_401 Could not validate credentials",
                 "HTTP_401 User not found", "HTTP_403",
                 "HTTP_401 Not authenticated", "HTTP_403 Not authenticated",
                 "HTTP_401 Invalid user ID in token"}
    THEN [envelope |-> FALSE, message |-> "detail"]
    ELSE IF code \in {"REGISTRATION_FAILED", "LOGIN_FAILED"}
    THEN [envelope |-> TRUE, message |-> "str(e)"]
    ELSE [envelope |-> TRUE, message |-> "fixed"]

\* -------------------------------------- order store: requests by credential
\* UUID(token_data.user_id): the text of a user id parses to that id, any
\* other text raises ValueError; the subjects that are no user id are the
\* numbers below 1
UUID(sub) ==
    IF sub >= 1 THEN [ValueError |-> FALSE, value |-> sub]
    ELSE [ValueError |-> TRUE, value |-> 0]

\* a credential signed with JWT_SECRET_KEY whose sub is not the text of a UUID
MalformedSubject == [key |-> JWT_SECRET_KEY, has_sub |-> TRUE, sub |-> -1,
                     email |-> Email(1), has_exp |-> TRUE,
                     exp |-> JWT_TOKEN_EXPIRE_MINUTES]

\* variant of get_current_user_id that looks the subject up among the users
get_current_user_id_known_users(token) ==
    LET token_data == orders_decode_access_token(token)
    IN  IF ~token_data.success THEN token_data
        ELSE IF UUID(token_data.sub).ValueError
        THEN [success |-> FALSE, code |-> "HTTP_401 Invalid user ID in token", sub |-> 0]
        ELSE IF UUID(token_data.sub).value \notin DOMAIN users
        THEN [success |-> FALSE, code |-> "HTTP_401 User not found", sub |-> 0]
        ELSE [success |-> TRUE, code |-> "OK", sub |-> UUID(token_data.sub).value]

\* service_orders/auth.py get_current_user_id: the subject of the decoded
\* credential as a UUID, or 401 "Invalid user ID in token"
get_current_user_id(token) ==
    LET token_data == orders_decode_access_token(token)
    IN  IF ~token_data.success THEN token_data
        ELSE IF UUID(token_data.sub).ValueError
        THEN [success |-> FALSE, code |-> "HTTP_401 Invalid user ID in token", sub |-> 0]
        ELSE [success |-> TRUE, code |-> "OK", sub |-> UUID(token_data.sub).value]

\* the answer to a request that a dependency stopped before its handler ran
Refusal(service, op, token, code) ==
    [NoRequest EXCEPT !.op = op, !.service = service, !.token = token, !.code = code]

OrderOps == {"create", "list", "get", "updateStatus", "cancel"}

\* a route of the order store, all of which declare
\* current_user_id: UUID = Depends(get_current_user_id): without a header
\* the bearer scheme refuses, a credential that does not pass is refused
\* with 401, and otherwise the handler runs for the subject
orders_request(op, token, body, q, order_id, new_status) ==
    LET current == get_current_user_id(token)
    IN  IF token = NoToken
        THEN /\ \E e \in HTTPBearer : last' = Refusal("orders", op, token, e.code)
             /\ UNCHANGED <<orders, sessions, users, now>>
        ELSE IF ~current.success
        THEN /\ last' = Refusal("orders", op, token, current.code)
             /\ UNCHANGED <<orders, sessions, users, now>>
        ELSE CASE op = "create" -> create_order(current.sub, body)
               [] op = "list" -> get_user_orders(current.sub, q)
               [] op = "get" -> get_order(current.sub, order_id)
               [] op = "updateStatus" ->
                     update_order_status(current.sub, order_id, new_status)
               [] op = "cancel" -> cancel_order(current.sub, order_id)

\* the credentials the order store is handed: one of each user id, one
\* whose subject is no user id, one without sub, one signed with another key,
\* one that has expired, and none
AccessTokens ==
    {create_access_token(data, NoDelta) : data \in Datas}
    \cup {MalformedSubject, ForgedCredential, ExpiredCredential, NoToken}

\* the identity store holds no user, or the user with id 1; what the order
\* store would find there it never asks
InitAccess ==
    /\ orders = <<>>
    /\ sessions = [w \in Workers |-> Idle]
    /\ last = NoRequest
    /\ users \in {t \in UserTables : Len(t) <= 1}
    /\ now = 0

\* one order is followed from its creation on
NextAccess ==
    \/ /\ orders = <<>>
       /\ \E token \in AccessTokens, body \in SampleBodies :
             orders_request("create", token, body, NoQuery, 0, "NONE")
    \/ \E token \in AccessTokens, q \in SampleQueries :
          orders_request("list", token, NoBody, q, 0, "NONE")
    \/ \E token \in AccessTokens, id \in DOMAIN orders :
          orders_request("get", token, NoBody, NoQuery, id, "NONE")
    \/ \E token \in AccessTokens, id \in DOMAIN orders, s \in OrderStatus :
          orders_request("updateStatus", token, NoBody, NoQuery, id, s)
    \/ \E token \in AccessTokens, id \in DOMAIN orders :
          orders_request("cancel", token, NoBody, NoQuery, id, "NONE")

SpecAccess == InitAccess /\ [][NextAccess]_vars

\* ------------------------------------------------ credentials in use
\* a call of create_access_token
issue(data, expires_delta) ==
    /\ last' = [NoRequest EXCEPT !.op = "issue", !.caller = data.sub,
                                 !.token = create_access_token(data, expires_delta),
                                 !.delta = expires_delta, !.at = now,
                                 !.success = TRUE, !.code = "OK"]
    /\ UNCHANGED <<orders, sessions, users, now>>

\* a service is handed a credential
verify(service, token) ==
    LET r == decode_access_token(service, token)
    IN  /\ last' = [NoRequest EXCEPT !.op = "verify", !.service = service,
                                     !.caller = r.sub, !.token = token, !.at = now,
                                     !.success = r.success, !.code = r.code]
        /\ UNCHANGED <<orders, sessions, users, now>>

\* time passes
Tick(t) ==
    /\ t > now
    /\ now' = t
    /\ UNCHANGED <<orders, sessions, last, users>>

InitCred ==
    /\ orders = <<>>
    /\ sessions = [w \in Workers |-> Idle]
    /\ last = NoRequest
    /\ users \in UserTables
    /\ now = 0

NextCred ==
    \/ \E data \in Datas, expires_delta \in Deltas : issue(data, expires_delta)
    \/ \E service \in Services : last.token # NoToken /\ verify(service, last.token)
    \/ \E service \in Services, token \in ForgedTokens : verify(service, token)
    \/ \E t \in Times : Tick(t)

SpecCred == InitCred /\ [][NextCred]_vars

\* ------------------------------------- identity store: the holder of a credential
\* GET /users/me behind Depends(get_current_user): the row of the caller as
\* UserResponse
get_current_user_profile(token) ==
    LET current == get_current_user(token)
        answer  == [NoRequest EXCEPT !.op = "getProfile", !.caller = current.sub,
                                     !.token = token]
    IN  /\ IF ~current.success
           THEN last' = [answer EXCEPT !.code = current.code]
           ELSE last' = [answer EXCEPT
                           !.account = [NoAccount EXCEPT
                              !.id = current.sub,
                              !.email = [given |-> TRUE,
                                         value |-> users[current.sub].email],
                              !.name = [given |-> TRUE,
                                        value |-> users[current.sub].name],
                              !.roles = [given |-> TRUE,
                                         values |-> users[current.sub].roles]],
                           !.success = TRUE, !.code = "OK"]
        /\ UNCHANGED <<orders, sessions, users, now>>

\* the credential the client holds: the one of its last login, sent again
\* with each request
Held == IF last.token = NoToken THEN {} ELSE {last.token}

\* credentials signed with JWT_SECRET_KEY for ids of which the users table
\* has no row
OrphanCredentials ==
    {create_access_token([has_sub |-> TRUE, sub |-> u, email |-> Email(u)],
                         [given |-> TRUE, minutes |-> JWT_TOKEN_EXPIRE_MINUTES]) :
        u \in Users \ DOMAIN users}

Presented == Held \cup OrphanCredentials \cup {ForgedCredential}

\* a client logs in and uses the protected operations of the identity store
\* with the credential it was given, while time passes
NextSubjects ==
    \/ \E email \in Emails : login([email |-> email, password |-> Password(8, "p")])
    \/ \E token \in Presented : get_current_user_profile(token)
    \/ \E token \in Presented, update_data \in UpdateBodies :
          update_current_user_profile(token, update_data)
    \/ \E token \in Presented : get_all_users(token, 1, 1, <<>>, "")
    \/ \E t \in Times : Tick(t)

\* the table holds no user, or one, whose email is free to change
InitSubjects ==
    /\ orders = <<>>
    /\ sessions = [w \in Workers |-> Idle]
    /\ last = NoRequest
    /\ users \in {t \in UserTables : Len(t) <= 1}
    /\ now = 0

SpecSubjects == InitSubjects /\ [][NextSubjects]_vars

\* ================================================================ claims
Terminal == {"COMPLETED", "CANCELLED"}

\* the transitions of the order lifecycle: the forward path and cancellation
Edges == {<<"CREATED", "IN_PROGRESS">>, <<"IN_PROGRESS", "COMPLETED">>,
          <<"CREATED", "CANCELLED">>, <<"IN_PROGRESS", "CANCELLED">>}

Backward == {<<"IN_PROGRESS", "CREATED">>, <<"COMPLETED", "IN_PROGRESS">>,
             <<"COMPLETED", "CREATED">>}

\* the last answered request addressed an existing order
LastOnOrder(op) == last.op = op /\ last.before.found

\* ... and was made by that order's owner
LastByOwner(op) == LastOnOrder(op) /\ last.caller = last.before.user_id

\* the stored status of the order the last request addressed
StoredStatus == orders[last.order_id].status

\* C1: terminal states are irreversible: in every step of every sequence of
\* requests, an order whose stored status is CANCELLED or COMPLETED keeps
\* that status.
C1_TerminalIrreversible ==
    [][\A o \in DOMAIN orders :
          orders[o].status \in Terminal => orders'[o].status = orders[o].status]_vars

\* C1 witness: the owner asked to move a cancelled order to IN_PROGRESS
C1_Witness ==
    /\ LastByOwner("updateStatus")
    /\ last.before.status = "CANCELLED"
    /\ last.target = "IN_PROGRESS"

\* C2: with concurrent workers, no step changes the stored status of an order
\* whose stored status is CANCELLED or COMPLETED: a writer decides on the
\* status the earlier writer committed.
C2_NoRaceOutOfTerminal ==
    [][\A o \in DOMAIN orders :
          orders'[o].status # orders[o].status => orders[o].status \notin Terminal]_vars

\* C3: updateStatus by the owner changes the stored status only along the
\* lifecycle edges, and CREATED -> COMPLETED fails with INVALID_STATUS_CHANGE
\* and leaves the status unchanged.
C3_OnlyLifecycleEdges ==
    LastByOwner("updateStatus") =>
        /\ StoredStatus # last.before.status =>
              <<last.before.status, StoredStatus>> \in Edges
        /\ (last.before.status = "CREATED" /\ last.target = "COMPLETED") =>
              /\ ~last.success
              /\ last.code = "INVALID_STATUS_CHANGE"
              /\ StoredStatus = "CREATED"

\* C4: updateStatus rejects every same-state and every backward request,
\* except COMPLETED -> COMPLETED.
C4_RejectsSameAndBackward ==
    (/\ LastByOwner("updateStatus")
     /\ \/ last.target = last.before.status
        \/ <<last.before.status, last.target>> \in Backward
     /\ ~(last.before.status = "COMPLETED" /\ last.target = "COMPLETED"))
    => ~last.success

\* C5: updateStatus to COMPLETED by the owner of a COMPLETED order succeeds
\* and the order stays COMPLETED.
C5_ReassertCompleted ==
    (/\ LastByOwner("updateStatus")
     /\ last.before.status = "COMPLETED"
     /\ last.target = "COMPLETED")
    => /\ last.success
       /\ StoredStatus = "COMPLETED"

\* C5 witness: the owner re-asserted COMPLETED on a completed order
C5_Witness ==
    /\ LastByOwner("updateStatus")
    /\ last.before.status = "COMPLETED"
    /\ last.target = "COMPLETED"
    /\ StoredStatus = "COMPLETED"

\* C6: cancel by the owner of a CANCELLED order is answered with
\* ORDER_ALREADY_CANCELLED, of a COMPLETED order with CANNOT_CANCEL_COMPLETED,
\* and the stored status is unchanged.
C6_CancelErrorKinds ==
    LastByOwner("cancel") =>
        /\ last.before.status = "CANCELLED" =>
              /\ ~last.success
              /\ last.code = "ORDER_ALREADY_CANCELLED"
              /\ StoredStatus = "CANCELLED"
        /\ last.before.status = "COMPLETED" =>
              /\ ~last.success
              /\ last.code = "CANNOT_CANCEL_COMPLETED"
              /\ StoredStatus = "COMPLETED"

\* C7: updateStatus by the owner of a CANCELLED order is answered, for every
\* target, with the code INVALID_STATUS_CHANGE.
C7_CancelledInvalidStatusChange ==
    (LastByOwner("updateStatus") /\ last.before.status = "CANCELLED")
    => /\ ~last.success
       /\ last.code = "INVALID_STATUS_CHANGE"

\* C8: cancel, and updateStatus to CANCELLED, by the owner of a CREATED or
\* IN_PROGRESS order succeeds and the stored status becomes CANCELLED.
C8_CancelSucceeds ==
    (/\ \/ LastByOwner("cancel")
        \/ LastByOwner("updateStatus") /\ last.target = "CANCELLED"
     /\ last.before.status \in {"CREATED", "IN_PROGRESS"})
    => /\ last.success
       /\ StoredStatus = "CANCELLED"

\* C8 witness: the owner cancelled an order that was in progress
C8_Witness ==
    /\ LastByOwner("cancel")
    /\ last.before.status = "IN_PROGRESS"
    /\ StoredStatus = "CANCELLED"

\* C9: get, updateStatus and cancel answer ORDER_NOT_FOUND for a missing
\* order id and ACCESS_DENIED for an existing order of another user.
C9_NotFoundThenAccessDenied ==
    last.op \in {"get", "updateStatus", "cancel"} =>
        /\ ~last.before.found =>
              ~last.success /\ last.code = "ORDER_NOT_FOUND"
        /\ (last.before.found /\ last.before.user_id # last.caller) =>
              ~last.success /\ last.code = "ACCESS_DENIED"

\* C10: updateStatus answers a non-owner of a CANCELLED or COMPLETED order
\* with ACCESS_DENIED and an owner's illegal transition with
\* INVALID_STATUS_CHANGE, two different codes.
C10_OwnershipBeforeStateMachine ==
    LastOnOrder("updateStatus") =>
        /\ (last.caller # last.before.user_id /\ last.before.status \in Terminal) =>
              ~last.success /\ last.code = "ACCESS_DENIED"
        /\ (last.caller = last.before.user_id /\ ~last.success) =>
              last.code = "INVALID_STATUS_CHANGE"

\* the sum over the line items of quantity * unit price, from the first item on
RECURSIVE LineSum(_, _)
LineSum(items, i) ==
    IF i > Len(items) THEN 0
    ELSE items[i].amount * items[i].price + LineSum(items, i + 1)

\* C11: every stored order's total_amount equals the sum over its items of
\* amount * price, at creation and after any successful or failed
\* updateStatus and cancel request.
C11_TotalIsLineSum ==
    \A o \in DOMAIN orders : orders[o].total_amount = LineSum(orders[o].items, 1)

\* C11 witness: an order of two items with different line totals whose status
\* the owner has changed
C11_Witness ==
    /\ LastByOwner("updateStatus")
    /\ last.success
    /\ StoredStatus # last.before.status
    /\ Len(orders[last.order_id].items) = 2
    /\ orders[last.order_id].items[1].amount * orders[last.order_id].items[1].price
          # orders[last.order_id].items[2].amount * orders[last.order_id].items[2].price

\* C12: an updateStatus or cancel request, successful or not, adds and removes
\* no order, leaves user_id, items and total_amount of every order as they
\* were, and leaves every order other than the addressed one unchanged.
C12_StatusRequestFrame ==
    [][last'.op \in {"updateStatus", "cancel"} =>
          /\ Len(orders') = Len(orders)
          /\ \A o \in DOMAIN orders :
                /\ orders'[o].user_id = orders[o].user_id
                /\ orders'[o].items = orders[o].items
                /\ orders'[o].total_amount = orders[o].total_amount
                /\ o # last'.order_id => orders'[o] = orders[o]]_vars

\* C12 witness: with two orders in the store, the owner changed the status of
\* one of them
C12_Witness ==
    /\ Len(orders) = 2
    /\ \/ LastByOwner("updateStatus")
       \/ LastByOwner("cancel")
    /\ last.success
    /\ StoredStatus # last.before.status

\* C13: a create request with items appends one order with status CREATED
\* owned by the caller, whatever status or user_id the body carries; a create
\* request without items is refused and the store is unchanged.
C13_CreateStoresCreatedForCaller ==
    [][(last'.op = "create" /\ <<orders, last>>' # <<orders, last>>) =>
          IF Len(last'.body.items) = 0
          THEN ~last'.success /\ orders' = orders
          ELSE /\ last'.success
               /\ Len(orders') = Len(orders) + 1
               /\ SubSeq(orders', 1, Len(orders)) = orders
               /\ last'.order_id = Len(orders')
               /\ orders'[Len(orders')].status = "CREATED"
               /\ orders'[Len(orders')].user_id = last'.caller]_vars

\* C13 witness: a body that names status COMPLETED and another user as owner
\* was stored as a CREATED order of the caller
C13_Witness ==
    /\ last.op = "create"
    /\ last.success
    /\ last.body.status = "COMPLETED"
    /\ last.body.user_id \notin {0, last.caller}
    /\ orders[last.order_id].status = "CREATED"
    /\ orders[last.order_id].user_id = last.caller

\* the orders on a page
Listed(items) == {items[i] : i \in DOMAIN items}

\* C14: no request removes an order id from the store; after a successful
\* cancel the order is stored with status CANCELLED, a get by its owner
\* succeeds, and a listing of the owner that has room for all matching
\* orders contains every cancelled order of the owner.
C14_NeverRemoved ==
    /\ [][DOMAIN orders \subseteq DOMAIN orders']_vars
    /\ []((last.op = "cancel" /\ last.success) =>
            /\ last.order_id \in DOMAIN orders
            /\ orders[last.order_id].status = "CANCELLED"
            /\ get_order_try(first(last.order_id), last.before.user_id).success
            /\ last.order_id \in filter_rows(last.before.user_id, "CANCELLED"))
    /\ []((LastByOwner("get") /\ last.before.status = "CANCELLED") => last.success)
    /\ []((/\ last.op = "list"
           /\ last.success
           /\ last.listing.query.page = 1
           /\ last.listing.total <= last.listing.query.page_size) =>
            \A o \in DOMAIN orders :
                (orders[o].user_id = last.caller /\ orders[o].status = "CANCELLED")
                    => o \in Listed(last.listing.items))

\* C14 witness: the owner cancelled one of two stored orders while it was in
\* progress; both are still stored
C14_Witness ==
    /\ LastByOwner("cancel")
    /\ last.success
    /\ last.before.status = "IN_PROGRESS"
    /\ Len(orders) = 2
    /\ StoredStatus = "CANCELLED"

\* C15: a successful listing returns only orders of the caller, for every
\* page, page_size, status filter, sort field and direction; with a status
\* filter every returned order has that status; total is the number of the
\* caller's orders that match the filter, whatever page and page_size are.
C15_ListScopedToCaller ==
    (last.op = "list" /\ last.success) =>
        /\ \A o \in Listed(last.listing.items) :
              /\ o \in DOMAIN orders
              /\ orders[o].user_id = last.caller
              /\ last.listing.query.status_filter # "NONE"
                    => orders[o].status = last.listing.query.status_filter
        /\ last.listing.total =
              Cardinality({o \in DOMAIN orders :
                  /\ orders[o].user_id = last.caller
                  /\ last.listing.query.status_filter \in {"NONE", orders[o].status}})

\* C15 witness: a listing filtered by status returned the caller's one order
\* of that status while another user's order of the same status is stored
C15_Witness ==
    /\ last.op = "list"
    /\ last.success
    /\ last.listing.query.status_filter # "NONE"
    /\ last.listing.total = 1
    /\ Len(last.listing.items) = 1
    /\ \E o \in DOMAIN orders :
          /\ orders[o].user_id # last.caller
          /\ orders[o].status = last.listing.query.status_filter

\* C16: in the listing of orders and in the listing of users, a successful
\* answer reports pages = 1 when total = 0 and otherwise the least number of
\* pages of page_size rows that hold total rows.
C16_PageCount ==
    (last.op \in {"list", "listUsers"} /\ last.success) =>
        IF last.listing.total = 0
        THEN last.listing.pages = 1
        ELSE /\ last.listing.pages * last.listing.query.page_size >= last.listing.total
             /\ (last.listing.pages - 1) * last.listing.query.page_size < last.listing.total

\* C17: when a client has received the pages 1..pages of one query over a
\* store without writes, the concatenation of the pages holds every order of
\* the caller that matches the filter exactly once.
C17_PagingExactlyOnce ==
    (/\ last.op = "list"
     /\ last.success
     /\ last.listing.run.from = 1
     /\ last.listing.query.page = last.listing.pages) =>
        /\ \A i, j \in DOMAIN last.listing.run.items :
              i # j => last.listing.run.items[i] # last.listing.run.items[j]
        /\ Listed(last.listing.run.items) =
              {o \in DOMAIN orders :
                  /\ orders[o].user_id = last.caller
                  /\ last.listing.query.status_filter \in {"NONE", orders[o].status}}

\* C18: a listing whose sort_by is none of created_at, updated_at and
\* total_amount succeeds, and its page is ordered by created_at in the
\* requested direction.
C18_SortFallsBackToCreatedAt ==
    (last.op = "list"
       /\ last.listing.query.sort_by \notin {"created_at", "updated_at", "total_amount"}) =>
        /\ last.success
        /\ \A i, j \in DOMAIN last.listing.items : i < j =>
              IF last.listing.query.sort_order = "asc"
              THEN last.listing.items[i] < last.listing.items[j]
              ELSE last.listing.items[i] > last.listing.items[j]

\* C19: a credential issued with expires_delta of zero minutes has exp equal
\* to the time of issue, and no service accepts it, at the time of issue or
\* later.
C19_ZeroTtlRejected ==
    /\ []((last.op = "issue" /\ last.delta.given /\ last.delta.minutes = 0) =>
            last.token.exp = last.at)
    /\ [][(/\ last.op = "issue"
           /\ last.delta.given
           /\ last.delta.minutes = 0
           /\ last'.op = "verify"
           /\ last'.token = last.token) => ~last'.success]_vars

\* C20: each of the three services accepts a credential exactly if it was
\* signed with JWT_SECRET_KEY, its exp is not before the time of the
\* verification and it has a sub, and then returns that sub; every refusal
\* is the same 401; the answer depends on no row of the stores.
C20_VerifyAcceptsIff ==
    last.op = "verify" =>
        LET ok == /\ last.token.key = JWT_SECRET_KEY
                  /\ ~(last.token.has_exp /\ last.token.exp < last.at)
                  /\ last.token.has_sub
        IN  /\ last.success <=> ok
            /\ ok => last.caller = last.token.sub
            /\ ~ok => /\ last.code = "HTTP_401 Could not validate credentials"
                      /\ last.caller = 0

\* C20 witness: a credential is accepted in the minute of its exp, for a
\* subject that has no row in the identity store
C20_Witness ==
    /\ last.op = "verify"
    /\ last.success
    /\ last.at = last.token.exp
    /\ last.at > 0
    /\ last.token.sub \notin DOMAIN users

\* the request answered last was a register that created a user
Registered == last.op = "register" /\ last.success

C22_DuplicateRegisterRefused ==
    [][(/\ last'.op = "register"
        /\ last' # last
        /\ \E u \in DOMAIN users : users[u].email = last'.account.email.value)
       => /\ users' = users
          /\ ~last'.success
          /\ Len(last'.account.password) >= 8 =>
                last'.code = IF last'.account.roles.given
                                /\ ~(last'.account.roles.values \subseteq UserRole)
                             THEN "VALIDATION_ERROR" ELSE "USER_ALREADY_EXISTS"]_vars

C22_Witness ==
    /\ last.op = "register" /\ last.code = "USER_ALREADY_EXISTS"
    /\ Len(users) = 2
    /\ \E u \in DOMAIN users :
          /\ users[u].email = last.account.email.value
          /\ ~verify_password(last.account.password, users[u].password_hash)

\* C23: in every reachable state of the identity store, whatever the
\* interleaving of the check and the write of the register and updateProfile
\* requests of independent workers, no two user records have the same email.
C23_EmailUnique ==
    \A u, v \in DOMAIN users : u # v => users[u].email # users[v].email

C23_Witness ==
    /\ last.op = "register" /\ last.code = "REGISTRATION_FAILED"
    /\ \E u \in DOMAIN users : users[u].email = last.account.email.value
    /\ \E w \in Workers : sessions[w].pc = "checked" /\ sessions[w].op = "updateProfile"

\* C24: an updateProfile of an authenticated caller whose email field equals
\* the caller's current email succeeds; one whose email is held by another
\* user is answered EMAIL_ALREADY_EXISTS and leaves the caller's name and
\* email as they were, also when the request carries a new name.
C24_UpdateEmailCheck ==
    [][(/\ last'.op = "updateProfile"
        /\ users_decode_access_token(last'.token).success
        /\ last'.caller \in DOMAIN users
        /\ last'.account.email.given)
       => /\ last'.account.email.value = users[last'.caller].email => last'.success
          /\ (\E v \in DOMAIN users :
                 v # last'.caller /\ users[v].email = last'.account.email.value)
             => /\ ~last'.success
                /\ last'.code = "EMAIL_ALREADY_EXISTS"
                /\ users'[last'.caller].name = users[last'.caller].name
                /\ users'[last'.caller].email = users[last'.caller].email]_vars

\* what a login delivers to its caller
LoginAnswer == [success |-> last.success, code |-> last.code, token |-> last.token,
                id |-> last.account.id]

C26_AdminDecidedOnStoredRoles ==
    [][(last'.op = "listUsers" /\ last' # last)
       => LET token  == users_decode_access_token(last'.token)
              stored == token.success /\ token.sub \in DOMAIN users
          IN  /\ last'.success <=> (stored /\ "admin" \in users[token.sub].roles)
              /\ (stored /\ "admin" \notin users[token.sub].roles)
                 => last'.code = "HTTP_403"]_vars

\* C26 witness: refused although the request answered just before, of the same
\* subject with the same kind of credential, succeeded
C26_Witness ==
    /\ last.op = "listUsers" /\ last.code = "HTTP_403"
    /\ users_decode_access_token(last.token).success
    /\ last.prev = [op |-> "listUsers", caller |-> last.caller, success |-> TRUE]
    /\ "admin" \notin users[last.caller].roles

\* C27: every stored user has a non-empty set of roles drawn from admin and
\* client, after any register and any updateProfile; a register with an
\* empty or omitted role list has stored exactly {client}.
C27_RolesNeverEmpty ==
    /\ \A u \in DOMAIN users :
          users[u].roles # {} /\ users[u].roles \subseteq UserRole
    /\ (Registered /\ (~last.account.roles.given \/ last.account.roles.values = {}))
       => users[last.account.id].roles = {"client"}

\* C27 witness: a register with roles = [] next to a user stored with admin
C27_Witness ==
    /\ Registered
    /\ last.account.roles = [given |-> TRUE, values |-> {}]
    /\ users[last.account.id].roles = {"client"}
    /\ \E u \in DOMAIN users : users[u].roles = {"admin"} /\ users[u].name = <<"b">>

C29_GatewayAlwaysResponds ==
    /\ \A w \in Workers : (sessions[w].pc = "awaiting") ~> (sessions[w].pc = "idle")
    /\ [](\A w \in Workers : sessions[w].pc = "awaiting" => sessions[w].calls = 1)
    /\ []((last.op = "gateway"
           /\ last.gateway.downstream.kind \in {"ConnectError", "TimeoutException"})
          => /\ ~last.success /\ last.code = "SERVICE_UNAVAILABLE"
             /\ last.gateway.calls = 1)

\* C29 witness: create_order timed out and was answered SERVICE_UNAVAILABLE
C29_Witness ==
    /\ last.op = "gateway" /\ last.gateway.route = "create_order"
    /\ last.gateway.downstream.kind = "TimeoutException"
    /\ last.code = "SERVICE_UNAVAILABLE" /\ last.gateway.calls = 1
    /\ \A w \in Workers : sessions[w].pc = "idle"

\* C30: an updateStatus or cancel request that is answered with an error
\* (missing order, wrong owner, illegal transition, failure at commit or
\* after it) leaves every stored order as it was before the request.
C30_FailedTransitionWritesNothing ==
    [][(last'.op \in {"updateStatus", "cancel"} /\ ~last'.success)
       => orders' = orders]_vars

\* C31: every request that fails is answered with the envelope
\* {success: false, data: null, error: {code, message}}, and the message is
\* not the text of an exception.
C31_UniformFailureEnvelope ==
    (last.op # "none" /\ ~last.success) =>
        /\ failure_body(last.code).envelope
        /\ failure_body(last.code).message # "str(e)"

\* C32: from any store state and for any caller, cancel and updateStatus
\* with target CANCELLED leave the same stored orders and agree on success;
\* each request of one kind is compared with what the other handler does on
\* the store the request found.
C32_CancelIsUpdateToCancelled ==
    [][LET order  == first(last'.order_id)
           cancel == Handle("cancel", order, last'.caller, "NONE")
           update == Handle("updateStatus", order, last'.caller, "CANCELLED")
       IN  /\ last'.op = "cancel" =>
                 /\ orders' = flush(last'.order_id, order, update)
                 /\ last'.success = update.success
           /\ (last'.op = "updateStatus" /\ last'.target = "CANCELLED") =>
                 /\ orders' = flush(last'.order_id, order, cancel)
                 /\ last'.success = cancel.success]_vars

\* C32 witness: the owner moved an order in progress to CANCELLED by
\* updateStatus, as cancel would have
C32_Witness ==
    /\ LastByOwner("updateStatus") /\ last.target = "CANCELLED" /\ last.success
    /\ last.before.status = "IN_PROGRESS"
    /\ StoredStatus = "CANCELLED"
    /\ Handle("cancel", last.before, last.caller, "NONE").write = "CANCELLED"

\* C33: every step that changes a stored order changes its status only and is
\* an updateStatus or cancel request on that order by the caller whose
\* credential subject is the order's user_id; a request by any other caller
\* leaves every field of every order of another owner as it was.
C33_OnlyOwnerChanges ==
    [][\A o \in DOMAIN orders :
          /\ orders'[o] # orders[o] =>
                /\ last'.op \in {"updateStatus", "cancel"}
                /\ last'.order_id = o
                /\ last'.caller = orders[o].user_id
                /\ orders'[o] = [orders[o] EXCEPT !.status = orders'[o].status]
          /\ last'.caller # orders[o].user_id => orders'[o] = orders[o]]_vars

\* C33 witness: a caller who is not the owner asked to cancel, or to move on,
\* an order that could have been changed, and the order is as it was
C33_Witness ==
    /\ last.op \in {"updateStatus", "cancel"}
    /\ last.before.found
    /\ last.caller # last.before.user_id
    /\ last.before.status \in {"CREATED", "IN_PROGRESS"}
    /\ ~last.success
    /\ StoredStatus = last.before.status

\* C34, as stated: on a protected route every bearer credential that is
\* present, one with a wrong signature or a past expiry included, is sent on
\* in a downstream call.
C34_GatewayForwardsUnverified ==
    (last.op = "gateway" /\ last.gateway.protected /\ last.token # NoToken) =>
        /\ last.gateway.calls >= 1
        /\ last.gateway.sent = last.token

\* C34, amended: on a protected route the gateway decodes the bearer
\* credential itself; one that verifies is sent on unchanged in the one
\* downstream call, one with a wrong signature, a past expiry or no sub is
\* answered 401 by the gateway and no downstream call is made.
C34_GatewayVerifiesThenForwards ==
    (last.op = "gateway" /\ last.gateway.protected /\ last.token # NoToken) =>
        IF gateway_decode_access_token(last.token).success
        THEN /\ last.gateway.calls = 1
             /\ last.gateway.sent = last.token
        ELSE /\ last.gateway.calls = 0
             /\ last.gateway.sent = NoToken
             /\ last.gateway.status_code = 401
             /\ ~last.success

\* C34 witness: get_order with an expired credential was answered 401 by the
\* gateway without a downstream call
C34_Witness ==
    /\ last.op = "gateway" /\ last.gateway.route = "get_order"
    /\ last.token = ExpiredCredential
    /\ last.gateway.status_code = 401
    /\ last.gateway.calls = 0

\* the answers of the 401 class
Unauthenticated == {"HTTP_401 Could not validate credentials",
                    "HTTP_401 Not authenticated",
                    "HTTP_401 Invalid user ID in token",
                    "HTTP_401 User not found"}

\* the request answered by l was made to a protected operation without a
\* bearer credential or with one the service does not accept: at the
\* gateway, at the order store (where such a request stops before the
\* handler and its answer names the service), at the identity store
Unaccepted(l) ==
    \/ /\ l.op = "gateway" /\ l.gateway.protected
       /\ l.token = NoToken \/ ~verify_token(l.token).success
    \/ /\ l.op \in OrderOps /\ "service" \in DOMAIN l /\ l.service = "orders"
       /\ l.token = NoToken \/ ~get_current_user_id(l.token).success
    \/ /\ l.op \in {"listUsers", "updateProfile", "getProfile"}
       /\ l.token = NoToken \/ ~get_current_user(l.token).success

\* C35: a request to a protected operation without a bearer credential, or
\* with one the service does not accept, is answered with a failure of the
\* 401 class and changes neither the orders nor the users; at the gateway no
\* downstream call is made for it.  (A step that leaves the last answer as
\* it was answers no new request.)
C35_UnacceptedIsRefused401 ==
    [][(last' # last /\ Unaccepted(last')) =>
          /\ ~last'.success
          /\ last'.code \in Unauthenticated
          /\ orders' = orders /\ users' = users
          /\ last'.op = "gateway" =>
                last'.gateway.calls = 0 /\ last'.gateway.sent = NoToken]_vars

\* the request answered by l stopped at the dependency of the order store
StoppedByOrders(l) ==
    l.op \in OrderOps /\ "service" \in DOMAIN l /\ l.service = "orders"

\* C36: the order store stops a request only for a missing credential, one
\* that does not verify, or one whose subject is no well-formed user id (and
\* that one with 401, changing nothing); every other request reaches its
\* handler and create, list, get, updateStatus and cancel succeed for the
\* subject whether or not the identity store holds a user of that id.
C36_OrdersTrustCredential ==
    /\ [](StoppedByOrders(last) =>
             /\ ~last.success
             /\ \/ last.token = NoToken
                \/ ~orders_decode_access_token(last.token).success
                \/ UUID(last.token.sub).ValueError
             /\ (last.token # NoToken
                 /\ orders_decode_access_token(last.token).success) =>
                   last.code = "HTTP_401 Invalid user ID in token")
    /\ [][(last' # last /\ StoppedByOrders(last')) => orders' = orders]_vars
    /\ [](~StoppedByOrders(last) =>
             /\ (last.op = "create" /\ last.body.items # <<>>) =>
                   /\ last.success
                   /\ orders[last.order_id].user_id = last.caller
             /\ last.op = "list" => last.success
             /\ LastByOwner("get") => last.success
             /\ ((LastByOwner("updateStatus") \/ LastByOwner("cancel"))
                 /\ last.before.status \in {"CREATED", "IN_PROGRESS"}) =>
                   last.success)

\* C36 witness: a subject of which the identity store holds no user owns an
\* order it created and has cancelled it
C36_Witness ==
    /\ last.op = "cancel" /\ last.success
    /\ last.caller \notin DOMAIN users
    /\ orders[last.order_id].user_id = last.caller
    /\ orders[last.order_id].status = "CANCELLED"

\* the operations of the identity store behind Depends(get_current_user)
IdentityOps == {"getProfile", "updateProfile", "listUsers"}

====
